---- MODULE Spec2Model ----
(***************************************************************************)
(* Model of src/shaders/SkComposeShader.cpp: the two shader combinators    *)
(* SkShader_Blend and SkShader_Lerp, their factories, their serialization  *)
(* codec, their raster-pipeline stage append and their GPU lowering.       *)
(*                                                                         *)
(* Objects live in a heap (a sequence of records); an object's identity is *)
(* its index, and the null pointer is 0.  A float is a record              *)
(* [nan, q]: NaN, or the value q/4.  A stream is a sequence of 32-bit      *)
(* words held as signed integers.                                          *)
(***************************************************************************)
EXTENDS Integers, Sequences, FiniteSets, TLC

\* ------------------------------------------------------------------ bounds

\* Most objects the heap of the factory specification may hold.
MaxObjs == 3
\* Most decode calls of the codec specification.
MaxDecodes == 1
\* Number of pipeline builds running concurrently over the shared objects.
NumBuilds == 2

\* ------------------------------------------------------- SkBlendMode values

kClear == 0
kSrc == 1
kDst == 2
kSrcOver == 3
kLastMode == 28

\* Blend modes the factory is called with.
ModeInputs == {kClear, kSrc, kDst, kSrcOver}

\* ------------------------------------------------------------------ floats

Float(q) == [nan |-> FALSE, q |-> q]
NaN == [nan |-> TRUE, q |-> 0]

SkScalarIsNaN(x) == x.nan

\* IEEE comparisons: every comparison with a NaN is false.
FloatLE(a, b) == ~a.nan /\ ~b.nan /\ a.q <= b.q
FloatGE(a, b) == ~a.nan /\ ~b.nan /\ a.q >= b.q

\* Weights the factory is called with: NaN, -1, 0, 0.5, 1, 2.
WeightInputs == {NaN, Float(-4), Float(0), Float(2), Float(4), Float(8)}

RECURSIVE Pow2(_)
Pow2(n) == IF n <= 0 THEN 1 ELSE 2 * Pow2(n - 1)

RECURSIVE Log2(_)
Log2(q) == IF q <= 1 THEN 0 ELSE 1 + Log2(q \div 2)

\* The IEEE-754 single bit pattern of the positive value q/4.
PosBits(q) ==
    LET e == Log2(q)
    IN  (e - 2 + 127) * Pow2(23) + (q - Pow2(e)) * Pow2(23 - e)

\* The bit pattern of a float as a signed 32-bit word (sign bit = negative).
FloatBits(x) ==
    IF x.nan THEN 255 * Pow2(23) + Pow2(22)
    ELSE IF x.q = 0 THEN 0
    ELSE IF x.q > 0 THEN PosBits(x.q)
    ELSE (PosBits(0 - x.q) - 2147483647) - 1

\* The float a 32-bit word stands for (words whose value is a multiple of 1/4).
BitsFloat(w) ==
    LET neg  == w < 0
        mag  == IF neg THEN (w + 2147483647) + 1 ELSE w
        ex   == mag \div Pow2(23)
        mant == mag % Pow2(23)
        e    == ex - 125
        q    == IF e >= 23 THEN (Pow2(23) + mant) * Pow2(e - 23)
                ELSE (Pow2(23) + mant) \div Pow2(23 - e)
    IN  IF ex = 255 /\ mant # 0 THEN NaN
        ELSE IF ex = 0 THEN Float(0)
        ELSE Float(IF neg THEN 0 - q ELSE q)

\* ------------------------------------------------------------------- heap

Null == 0

\* kind: "Leaf" (a shader of another kind; ok says whether it supports the
\* raster pipeline and the GPU backend), "Color" (SkColorShader), "Blend",
\* "Lerp".
LeafObj(ok) ==
    [kind |-> "Leaf", mode |-> 0, weight |-> Float(0), dst |-> Null, src |-> Null, ok |-> ok]
ColorObj(c) ==
    [kind |-> "Color", mode |-> c, weight |-> Float(0), dst |-> Null, src |-> Null, ok |-> TRUE]
SkShader_Blend(mode, dst, src) ==
    [kind |-> "Blend", mode |-> mode, weight |-> Float(0), dst |-> dst, src |-> src, ok |-> TRUE]
SkShader_Lerp(weight, dst, src) ==
    [kind |-> "Lerp", mode |-> 0, weight |-> weight, dst |-> dst, src |-> src, ok |-> TRUE]

\* new: the object gets the next address.
New(h, obj) == [heap |-> Append(h, obj), ret |-> Len(h) + 1]

Refs(h) == 0 .. Len(h)

IsComb(h, p) == p # Null /\ h[p].kind \in {"Blend", "Lerp"}

\* ------------------------------------------------------------- factories

MakeColorShader(h, c) == New(h, ColorObj(c))

\* MakeBlend with the kDst and kSrc cases exchanged.
MakeBlend_swapped(h, mode, dst, src) ==
    IF mode = kClear THEN MakeColorShader(h, 0)
    ELSE IF mode = kDst THEN [heap |-> h, ret |-> src]
    ELSE IF mode = kSrc THEN [heap |-> h, ret |-> dst]
    ELSE New(h, SkShader_Blend(mode, dst, src))

MakeBlend(h, mode, dst, src) ==
    IF mode = kClear THEN MakeColorShader(h, 0)
    ELSE IF mode = kDst THEN [heap |-> h, ret |-> dst]
    ELSE IF mode = kSrc THEN [heap |-> h, ret |-> src]
    ELSE New(h, SkShader_Blend(mode, dst, src))

\* MakeLerp with the identical-object test ahead of the NaN test.
MakeLerp_identityFirst(h, weight, dst, src) ==
    IF dst = src THEN [heap |-> h, ret |-> dst]
    ELSE IF SkScalarIsNaN(weight) THEN [heap |-> h, ret |-> Null]
    ELSE IF FloatLE(weight, Float(0)) THEN [heap |-> h, ret |-> dst]
    ELSE IF FloatGE(weight, Float(4)) THEN [heap |-> h, ret |-> src]
    ELSE New(h, SkShader_Lerp(weight, dst, src))

MakeLerp(h, weight, dst, src) ==
    IF SkScalarIsNaN(weight) THEN [heap |-> h, ret |-> Null]
    ELSE IF dst = src THEN [heap |-> h, ret |-> dst]
    ELSE IF FloatLE(weight, Float(0)) THEN [heap |-> h, ret |-> dst]
    ELSE IF FloatGE(weight, Float(4)) THEN [heap |-> h, ret |-> src]
    ELSE New(h, SkShader_Lerp(weight, dst, src))

\* ----------------------------------------------------- SkWriteBuffer side

\* The tag writeFlattenable puts before each object; 0 stands for nullptr.
TagNull == 0
TagColor == 1
TagLeaf == 2
TagBlend == 3
TagLerp == 4
\* A word that is no known tag.
TagBad == 9

write32(v) == <<v>>
writeScalar(x) == <<FloatBits(x)>>

RECURSIVE writeFlattenable(_, _)
RECURSIVE SkShader_Blend_flatten(_, _)
RECURSIVE SkShader_Lerp_flatten(_, _)

SkShader_Blend_flatten(h, p) ==
    writeFlattenable(h, h[p].dst) \o writeFlattenable(h, h[p].src) \o write32(h[p].mode)

\* Lerp flatten that writes the source child before the destination child.
SkShader_Lerp_flatten_srcFirst(h, p) ==
    writeFlattenable(h, h[p].src) \o writeFlattenable(h, h[p].dst) \o writeScalar(h[p].weight)

SkShader_Lerp_flatten(h, p) ==
    writeFlattenable(h, h[p].dst) \o writeFlattenable(h, h[p].src) \o writeScalar(h[p].weight)

writeFlattenable(h, p) ==
    IF p = Null THEN <<TagNull>>
    ELSE IF h[p].kind = "Leaf" THEN <<TagLeaf, IF h[p].ok THEN 1 ELSE 0>>
    ELSE IF h[p].kind = "Color" THEN <<TagColor, h[p].mode>>
    ELSE IF h[p].kind = "Blend" THEN <<TagBlend>> \o SkShader_Blend_flatten(h, p)
    ELSE <<TagLerp>> \o SkShader_Lerp_flatten(h, p)

\* ------------------------------------------------------ SkReadBuffer side

\* A read buffer together with the heap the decode allocates in: data and
\* pos are the stream and the read position, valid is the validity flag, ret
\* the object last returned, val the word or float last read, calls the
\* factory calls made so far (each with the depth of the record that made it)
\* and depth the nesting depth of the record being decoded.
ReadBuffer(h, data) ==
    [heap |-> h, data |-> data, pos |-> 1, valid |-> TRUE, ret |-> Null,
     val |-> 0, fval |-> Float(0), calls |-> <<>>, depth |-> 0]

isValid(b) == b.valid

\* validate(cond): trips the flag when cond is false; the flag never recovers,
\* and the call answers the flag.
validate(b, cond) == [b EXCEPT !.valid = b.valid /\ cond]

\* A read from an invalid or exhausted buffer yields 0 and leaves it invalid.
read32(b) ==
    IF b.valid /\ b.pos <= Len(b.data)
    THEN [b EXCEPT !.val = b.data[b.pos], !.pos = b.pos + 1]
    ELSE [b EXCEPT !.val = 0, !.valid = FALSE]

readScalarOf(r) == [r EXCEPT !.fval = IF r.valid THEN BitsFloat(r.val) ELSE Float(0)]
readScalar(b) == readScalarOf(read32(b))

\* mode <= (unsigned)k for the unsigned reading of a signed 32-bit word: a
\* negative word reads as a value of 2^31 or more.
UnsignedLE(w, k) == w >= 0 /\ w <= k

Ret(b, p) == [b EXCEPT !.ret = p]

\* The buffer after a factory call that returned r (r.heap, r.ret).
Made(b, fn, r) ==
    [b EXCEPT !.heap = r.heap, !.ret = r.ret,
              !.calls = Append(b.calls, [fn |-> fn, depth |-> b.depth])]

RECURSIVE readShader(_)
RECURSIVE SkShader_Blend_CreateProc(_)
RECURSIVE SkShader_Lerp_CreateProc(_)

\* Blend decode that casts the operator word without looking at validate's answer.
SkShader_Blend_CreateProc_unchecked(b) ==
    LET b1   == readShader(b)
        dst  == b1.ret
        b2   == readShader(b1)
        src  == b2.ret
        b3   == read32(b2)
        mode == b3.val
        b4   == validate(b3, UnsignedLE(mode, kLastMode))
    IN  Made(b4, "MakeBlend", MakeBlend(b4.heap, mode, dst, src))

SkShader_Blend_CreateProc(b) ==
    LET b1   == readShader(b)
        dst  == b1.ret
        b2   == readShader(b1)
        src  == b2.ret
        b3   == read32(b2)
        mode == b3.val
        b4   == validate(b3, UnsignedLE(mode, kLastMode))
    IN  IF ~isValid(b4) THEN Ret(b4, Null)
        ELSE Made(b4, "MakeBlend", MakeBlend(b4.heap, mode, dst, src))

\* Lerp decode that allocates the combinator itself instead of calling MakeLerp.
SkShader_Lerp_CreateProc_direct(b) ==
    LET b1  == readShader(b)
        dst == b1.ret
        b2  == readShader(b1)
        src == b2.ret
        b3  == readScalar(b2)
        t   == b3.fval
    IN  IF isValid(b3) THEN Made(b3, "new", New(b3.heap, SkShader_Lerp(t, dst, src)))
        ELSE Ret(b3, Null)

SkShader_Lerp_CreateProc(b) ==
    LET b1  == readShader(b)
        dst == b1.ret
        b2  == readShader(b1)
        src == b2.ret
        b3  == readScalar(b2)
        t   == b3.fval
    IN  IF isValid(b3) THEN Made(b3, "MakeLerp", MakeLerp(b3.heap, t, dst, src))
        ELSE Ret(b3, Null)

\* A colour-shader record: one word of payload, the colour.
readColor(t) ==
    LET c == read32(t)
        n == New(c.heap, ColorObj(c.val))
    IN  IF isValid(c) THEN [c EXCEPT !.heap = n.heap, !.ret = n.ret] ELSE Ret(c, Null)

\* A record of a shader of another kind: one word of payload, its support.
readLeaf(t) ==
    LET c == read32(t)
        n == New(c.heap, LeafObj(c.val # 0))
    IN  IF isValid(c) THEN [c EXCEPT !.heap = n.heap, !.ret = n.ret] ELSE Ret(c, Null)

\* The record's CreateProc runs one level deeper than its reader.
Nested(b, r) == [r EXCEPT !.depth = b.depth]

\* readShader: the tag picks the CreateProc of the record's kind.
readShader(b) ==
    IF ~isValid(b) THEN Ret(b, Null)
    ELSE LET t == read32(b)
         IN  IF ~isValid(t) THEN Ret(t, Null)
             ELSE IF t.val = TagNull THEN Ret(t, Null)
             ELSE IF t.val = TagColor THEN readColor(t)
             ELSE IF t.val = TagLeaf THEN readLeaf(t)
             ELSE IF t.val = TagBlend
                  THEN Nested(b, SkShader_Blend_CreateProc([t EXCEPT !.depth = b.depth + 1]))
             ELSE IF t.val = TagLerp
                  THEN Nested(b, SkShader_Lerp_CreateProc([t EXCEPT !.depth = b.depth + 1]))
             ELSE Ret(validate(t, FALSE), Null)

\* ----------------------------------------------------------- GPU lowering

\* A fragment-processor outcome is a tuple <<tag, n, a, b>>.
Absent == <<"absent", 0, <<>>, <<>>>>
\* The process dies (a fatal error).
Fatal == <<"fatal", 0, <<>>, <<>>>>
Garbage == <<"garbage", 0, <<>>, <<>>>>
LeafNode(p) == <<"leaf", p, <<>>, <<>>>>

\* GrXfermodeFragmentProcessor::MakeFromTwoProcessors(src, dst, mode)
MakeFromTwoProcessors(first, second, mode) == <<"xfermode", mode, first, second>>

\* A virtual call through a null pointer is undefined behaviour: the process
\* may die, or the call may come back with nothing or with anything.
NullCallOutcomes == {Fatal, Absent, Garbage}

RECURSIVE asFragmentProcessor(_, _)

\* as_SB(child)->asFragmentProcessor(args): the set of possible outcomes.
as_SB_asFragmentProcessor(h, c) ==
    IF c = Null THEN NullCallOutcomes ELSE asFragmentProcessor(h, c)

SkShader_Blend_asFragmentProcessor(h, p) ==
    UNION { IF fpA = Fatal THEN {Fatal}
            ELSE IF fpA = Absent THEN {Absent}
            ELSE UNION { IF fpB = Fatal THEN {Fatal}
                         ELSE IF fpB = Absent THEN {Absent}
                         ELSE {MakeFromTwoProcessors(fpB, fpA, h[p].mode)}
                         : fpB \in as_SB_asFragmentProcessor(h, h[p].src) }
            : fpA \in as_SB_asFragmentProcessor(h, h[p].dst) }

SkShader_Lerp_asFragmentProcessor(h, p) ==
    UNION { IF fpA = Fatal THEN {Fatal}
            ELSE IF fpA = Absent THEN {Absent}
            ELSE UNION { IF fpB = Fatal THEN {Fatal}
                         ELSE IF fpB = Absent THEN {Absent}
                         ELSE {Absent}
                         : fpB \in as_SB_asFragmentProcessor(h, h[p].src) }
            : fpA \in as_SB_asFragmentProcessor(h, h[p].dst) }

asFragmentProcessor(h, p) ==
    IF h[p].kind = "Blend" THEN SkShader_Blend_asFragmentProcessor(h, p)
    ELSE IF h[p].kind = "Lerp" THEN SkShader_Lerp_asFragmentProcessor(h, p)
    ELSE IF h[p].ok THEN {LeafNode(p)}
    ELSE {Absent}

\* ------------------------------------------------------------------ state

VARIABLES
    heap,       \* the shader objects, by address
    call,       \* the last call made: its name and arguments
    ret,        \* the object the last factory or decode call returned
    valid,      \* the read buffer's validity flag after the last decode
    calls,      \* the factory calls the last decode made
    fp,         \* the outcome of the last asFragmentProcessor call
    ndec,       \* decode calls made so far
    pipeline,   \* per build: the stages appended so far
    stack,      \* per build: the onAppendStages calls in progress
    ctl,        \* per build: the call about to be made or the value returned
    arena,      \* per build: scratch regions reserved so far
    log         \* per build: the onAppendStages calls that returned

vars == <<heap, call, ret, valid, calls, fp, ndec, pipeline, stack, ctl, arena, log>>
buildVars == <<pipeline, stack, ctl, arena, log>>

Builds == 1 .. NumBuilds

NoFP == <<"none", 0, <<>>, <<>>>>

Call(op, mode, weight, dst, src, obj, data, e1, e2) ==
    [op |-> op, mode |-> mode, weight |-> weight, dst |-> dst, src |-> src,
     obj |-> obj, data |-> data, e1 |-> e1, e2 |-> e2, nobj |-> Len(heap)]

\* No call is in progress: the caller is between two calls.
NoCall ==
    [op |-> "none", mode |-> 0, weight |-> Float(0), dst |-> Null, src |-> Null,
     obj |-> Null, data |-> <<>>, e1 |-> <<>>, e2 |-> <<>>, nobj |-> 0]
Ready == call.op = "none"

\* No build has started.
InitBuilds ==
    /\ pipeline = [b \in Builds |-> <<>>]
    /\ stack = [b \in Builds |-> <<>>]
    /\ ctl = [b \in Builds |-> [op |-> "idle", obj |-> Null, val |-> TRUE, root |-> Null]]
    /\ arena = [b \in Builds |-> 0]
    /\ log = [b \in Builds |-> <<>>]

Init ==
    /\ heap = <<LeafObj(FALSE)>>
    /\ call = NoCall
    /\ ret = Null
    /\ valid = TRUE
    /\ calls = <<>>
    /\ fp = NoFP
    /\ ndec = 0
    /\ InitBuilds

\* ------------------------------------------------- factory and codec calls

DoMakeBlend(mode, dst, src) ==
    /\ Ready
    /\ \E r \in {MakeBlend(heap, mode, dst, src)} :
        /\ Len(r.heap) <= MaxObjs
        /\ heap' = r.heap
        /\ ret' = r.ret
        /\ call' = Call("MakeBlend", mode, Float(0), dst, src, Null, <<>>, <<>>, <<>>)
        /\ valid' = TRUE /\ calls' = <<>> /\ fp' = NoFP
        /\ UNCHANGED <<ndec, buildVars>>

DoMakeLerp(weight, dst, src) ==
    /\ Ready
    /\ \E r \in {MakeLerp(heap, weight, dst, src)} :
        /\ Len(r.heap) <= MaxObjs
        /\ heap' = r.heap
        /\ ret' = r.ret
        /\ call' = Call("MakeLerp", 0, weight, dst, src, Null, <<>>, <<>>, <<>>)
        /\ valid' = TRUE /\ calls' = <<>> /\ fp' = NoFP
        /\ UNCHANGED <<ndec, buildVars>>

\* Child encodings of hand-made streams: nullptr, a colour shader, an
\* unsupported leaf, a nested Blend record, and an unknown tag.
NestedEnc == <<TagBlend, TagNull, TagNull, kSrcOver>>
ChildEncs == {<<TagNull>>, <<TagColor, 0>>, <<TagLeaf, 0>>, NestedEnc, <<TagBad>>}
BadEncs == {<<TagBad>>}

\* Operator words of hand-made Blend records; -1 is 0xFFFFFFFF.
ModeWords == {kClear, kSrc, kDst, kSrcOver, kLastMode, kLastMode + 1, -1}
WeightWords == {FloatBits(w) : w \in WeightInputs}

Record(tag, e1, e2, field) == <<tag>> \o e1 \o e2 \o <<field>>

\* Decode of the stream data; obj is the object it was flattened from, if any.
DoDecode(op, obj, data, e1, e2) ==
    /\ Ready
    /\ \E r \in {readShader(ReadBuffer(heap, data))} :
        /\ heap' = r.heap
        /\ ret' = r.ret
        /\ valid' = r.valid
        /\ calls' = r.calls
        /\ call' = Call(op, 0, Float(0), Null, Null, obj, data, e1, e2)
        /\ fp' = NoFP
        /\ UNCHANGED buildVars

\* flatten a combinator of the heap, then decode the stream.
DecodeFlattened(p) ==
    /\ IsComb(heap, p)
    /\ DoDecode("RoundTrip", p, writeFlattenable(heap, p), <<>>, <<>>)

DecodeBlendRecord(e1, e2, w) ==
    DoDecode("DecodeBlend", Null, Record(TagBlend, e1, e2, w), e1, e2)

DecodeLerpRecord(e1, e2, w) ==
    DoDecode("DecodeLerp", Null, Record(TagLerp, e1, e2, w), e1, e2)

\* A record cut off before its trailing field.
DecodeTruncated(tag, e1, e2) ==
    DoDecode("DecodeTruncated", Null, <<tag>> \o e1 \o e2, e1, e2)

DoAsFragmentProcessor(p) ==
    /\ Ready
    /\ IsComb(heap, p)
    /\ \E r \in asFragmentProcessor(heap, p) : fp' = r
    /\ call' = Call("asFragmentProcessor", 0, Float(0), Null, Null, p, <<>>, <<>>, <<>>)
    /\ ret' = Null /\ valid' = TRUE /\ calls' = <<>>
    /\ UNCHANGED <<heap, ndec, buildVars>>

\* The call returns to the caller, which goes on to its next call; the
\* objects stay in the heap.
Return ==
    /\ ~Ready
    /\ call' = NoCall
    /\ ret' = Null /\ valid' = TRUE /\ calls' = <<>> /\ fp' = NoFP
    /\ UNCHANGED <<heap, ndec, buildVars>>

\* Child pairs of the hand-made records decoded in the factory specification.
SmallPairs == {<<<<TagNull>>, <<TagNull>>>>, <<<<TagNull>>, <<TagColor, 0>>>>,
               <<<<TagBad>>, <<TagNull>>>>}

\* The factory specification caps the heap at MaxObjs objects.
Fits == Len(heap') <= MaxObjs /\ UNCHANGED ndec

Next ==
    \/ \E m \in ModeInputs, d \in Refs(heap), s \in Refs(heap) : DoMakeBlend(m, d, s)
    \/ \E w \in WeightInputs, d \in Refs(heap), s \in Refs(heap) : DoMakeLerp(w, d, s)
    \/ \E p \in Refs(heap) : DecodeFlattened(p) /\ Fits
    \/ \E e \in SmallPairs, w \in ModeWords : DecodeBlendRecord(e[1], e[2], w) /\ Fits
    \/ \E e \in SmallPairs, w \in WeightWords : DecodeLerpRecord(e[1], e[2], w) /\ Fits
    \/ \E e \in SmallPairs, t \in {TagBlend, TagLerp} : DecodeTruncated(t, e[1], e[2]) /\ Fits
    \/ \E p \in Refs(heap) : DoAsFragmentProcessor(p)
    \/ Return

Spec == Init /\ [][Next]_vars

\* --------------------------------------------- a heap built by the factory

\* The factory calls that build the objects of the codec and the build
\* specifications, on top of a supported and an unsupported leaf shader:
\*   3 = Blend(kSrcOver, 1, null)      4 = Blend(kLastMode, 3, 3)
\*   5 = Lerp(0.5, 4, 1)               6 = Blend(kSrcOver, 2, 1)
\*   7 = Lerp(0.25, 3, 6)              8 = Lerp(0.5, 1, 2)
BaseProgram ==
    << [fn |-> "MakeBlend", mode |-> kSrcOver, weight |-> Float(0), dst |-> 1, src |-> Null],
       [fn |-> "MakeBlend", mode |-> kLastMode, weight |-> Float(0), dst |-> 3, src |-> 3],
       [fn |-> "MakeLerp", mode |-> 0, weight |-> Float(2), dst |-> 4, src |-> 1],
       [fn |-> "MakeBlend", mode |-> kSrcOver, weight |-> Float(0), dst |-> 2, src |-> 1],
       [fn |-> "MakeLerp", mode |-> 0, weight |-> Float(1), dst |-> 3, src |-> 6],
       [fn |-> "MakeLerp", mode |-> 0, weight |-> Float(2), dst |-> 1, src |-> 2] >>

RECURSIVE RunProgram(_, _, _)
RunProgram(h, prog, i) ==
    IF i > Len(prog) THEN h
    ELSE LET c == prog[i]
             r == IF c.fn = "MakeBlend" THEN MakeBlend(h, c.mode, c.dst, c.src)
                  ELSE MakeLerp(h, c.weight, c.dst, c.src)
         IN  RunProgram(r.heap, prog, i + 1)

BaseHeap == RunProgram(<<LeafObj(TRUE), LeafObj(FALSE)>>, BaseProgram, 1)

\* ------------------------------------------------- the codec specification

InitCodec ==
    /\ heap = BaseHeap
    /\ call = NoCall
    /\ ret = Null
    /\ valid = TRUE
    /\ calls = <<>>
    /\ fp = NoFP
    /\ ndec = 0
    /\ InitBuilds

\* The codec specification stops after MaxDecodes decodes.
More == ndec < MaxDecodes
Counted == ndec' = ndec + 1

NextCodec ==
    \/ \E p \in Refs(heap) : More /\ DecodeFlattened(p) /\ Counted
    \/ \E e1 \in ChildEncs, e2 \in ChildEncs, w \in ModeWords :
          More /\ DecodeBlendRecord(e1, e2, w) /\ Counted
    \/ \E e1 \in ChildEncs, e2 \in ChildEncs, w \in WeightWords :
          More /\ DecodeLerpRecord(e1, e2, w) /\ Counted
    \/ \E e1 \in ChildEncs, e2 \in ChildEncs, t \in {TagBlend, TagLerp} :
          More /\ DecodeTruncated(t, e1, e2) /\ Counted
    \/ Return

SpecCodec == InitCodec /\ [][NextCodec]_vars

\* ------------------------------------------------------- raster pipeline

NoPtr == <<0, 0>>

\* One stage of a pipeline.  ptr is the scratch region a store_src or
\* load_dst stage works on; a merge stage carries the combinator that
\* appended it (obj) and that call's region (ptr) for reference only.
Stage(op, ptr, obj, mode) == [op |-> op, ptr |-> ptr, obj |-> obj, mode |-> mode]

\* One static Storage for every call instead of a region of the build's arena.
Alloc_static(b, k) == <<1, 1>>

\* rec.fAlloc->make<Storage>(): the k-th region of the arena of build b.
Alloc(b, k) == <<b, k>>

\* append(SkRasterPipeline::store_src, storage->fRes0)
StoreStage(ptr) == Stage("store_src", ptr, Null, 0)

\* The saved output loaded into the current registers instead of the dst ones.
LoadStage_current(ptr) == Stage("load", ptr, Null, 0)

\* append(SkRasterPipeline::load_dst, res0)
LoadStage(ptr) == Stage("load_dst", ptr, Null, 0)

\* A child's failure is not looked at.
ChildFailed_ignored(val) == FALSE

\* if (!append_shader_or_paint(rec, s)) return nullptr;  if (!res0) return false;
ChildFailed(val) == ~val

Ctl(op, obj, val, root) == [op |-> op, obj |-> obj, val |-> val, root |-> root]

Frame(obj, ptr, pc, start) == [obj |-> obj, ptr |-> ptr, pc |-> pc, start |-> start]

Top(b) == stack[b][Len(stack[b])]
Pop(b) == SubSeq(stack[b], 1, Len(stack[b]) - 1)

\* The caller starts a build: appendStages(rec) on a combinator.
BuildStart(b, root) ==
    /\ ctl[b].op = "idle"
    /\ IsComb(heap, root)
    /\ ctl' = [ctl EXCEPT ![b] = Ctl("call", root, TRUE, root)]
    /\ UNCHANGED <<heap, call, ret, valid, calls, fp, ndec, pipeline, stack, arena, log>>

\* append_shader_or_paint(rec, shader), and for a combinator the entry of
\* onAppendStages and append_two_shaders up to the call on the first child.
append_shader_or_paint(b) ==
    LET p == ctl[b].obj
        root == ctl[b].root
    IN  /\ ctl[b].op = "call"
        /\ IF p = Null THEN
               /\ pipeline' = [pipeline EXCEPT
                     ![b] = Append(@, Stage("constant_color", NoPtr, Null, 0))]
               /\ ctl' = [ctl EXCEPT ![b] = Ctl("ret", p, TRUE, root)]
               /\ UNCHANGED <<stack, arena>>
           ELSE IF ~IsComb(heap, p) THEN
               /\ pipeline' = [pipeline EXCEPT
                     ![b] = IF heap[p].ok THEN Append(@, Stage("shader", NoPtr, p, 0))
                            ELSE @]
               /\ ctl' = [ctl EXCEPT ![b] = Ctl("ret", p, heap[p].ok, root)]
               /\ UNCHANGED <<stack, arena>>
           ELSE
               /\ arena' = [arena EXCEPT ![b] = @ + 1]
               /\ stack' = [stack EXCEPT ![b] =
                     Append(@, Frame(p, Alloc(b, arena[b] + 1), "s0", Len(pipeline[b])))]
               /\ ctl' = [ctl EXCEPT ![b] = Ctl("call", heap[p].dst, TRUE, root)]
               /\ UNCHANGED pipeline
        /\ UNCHANGED <<heap, call, ret, valid, calls, fp, ndec, log>>

\* The merge stage of a combinator: SkBlendMode_AppendStages(fMode, ...) or
\* append(lerp_1_float, &fWeight).
MergeStage(f) ==
    IF heap[f.obj].kind = "Blend"
    THEN Stage("blend", f.ptr, f.obj, heap[f.obj].mode)
    ELSE Stage("lerp_1_float", f.ptr, f.obj, 0)

LogEntry(f, ok, end) ==
    [obj |-> f.obj, ptr |-> f.ptr, ok |-> ok, pc |-> f.pc, start |-> f.start, end |-> end]

\* A child's appendStages came back to append_two_shaders: after the first
\* child the store_src stage and the call on the second child, after the
\* second the return to onAppendStages, which appends load_dst and the merge
\* stage; a failure goes straight back to the caller.
append_two_shaders(b) ==
    LET f == Top(b)
        root == ctl[b].root
    IN  /\ ctl[b].op = "ret"
        /\ stack[b] # <<>>
        /\ IF ChildFailed(ctl[b].val) THEN
               /\ stack' = [stack EXCEPT ![b] = Pop(b)]
               /\ log' = [log EXCEPT ![b] = Append(@, LogEntry(f, FALSE, Len(pipeline[b])))]
               /\ ctl' = [ctl EXCEPT ![b] = Ctl("ret", f.obj, FALSE, root)]
               /\ UNCHANGED pipeline
           ELSE IF f.pc = "s0" THEN
               /\ pipeline' = [pipeline EXCEPT
                     ![b] = Append(@, StoreStage(f.ptr))]
               /\ stack' = [stack EXCEPT ![b] = Append(Pop(b), [f EXCEPT !.pc = "s1"])]
               /\ ctl' = [ctl EXCEPT ![b] = Ctl("call", heap[f.obj].src, TRUE, root)]
               /\ UNCHANGED log
           ELSE
               /\ pipeline' = [pipeline EXCEPT
                     ![b] = @ \o <<LoadStage(f.ptr), MergeStage(f)>>]
               /\ stack' = [stack EXCEPT ![b] = Pop(b)]
               /\ log' = [log EXCEPT
                     ![b] = Append(@, LogEntry(f, TRUE, Len(pipeline[b]) + 2))]
               /\ ctl' = [ctl EXCEPT ![b] = Ctl("ret", f.obj, TRUE, root)]
        /\ UNCHANGED <<heap, call, ret, valid, calls, fp, ndec, arena>>

\* The root's appendStages returns to the caller.
BuildDone(b) ==
    /\ ctl[b].op = "ret"
    /\ stack[b] = <<>>
    /\ ctl' = [ctl EXCEPT ![b] = Ctl("done", ctl[b].obj, ctl[b].val, ctl[b].root)]
    /\ UNCHANGED <<heap, call, ret, valid, calls, fp, ndec, pipeline, stack, arena, log>>

InitBuild ==
    /\ heap = BaseHeap
    /\ call = NoCall
    /\ ret = Null
    /\ valid = TRUE
    /\ calls = <<>>
    /\ fp = NoFP
    /\ ndec = 0
    /\ InitBuilds

NextBuild ==
    \/ \E b \in Builds, root \in Refs(heap) : BuildStart(b, root)
    \/ \E b \in Builds : append_shader_or_paint(b)
    \/ \E b \in Builds : append_two_shaders(b)
    \/ \E b \in Builds : BuildDone(b)

SpecBuild == InitBuild /\ [][NextBuild]_vars

\* ------------------------------------------------------------ the factories

\* A call of the factory allocated nothing / exactly the object obj.
NothingNew == Len(heap) = call.nobj
NewObject(obj) == Len(heap) = call.nobj + 1 /\ ret = Len(heap) /\ heap[ret] = obj

\* C1: MakeBlend folds the three trivial modes: kClear gives a new constant
\* transparent-black colour shader whatever dst and src are, kDst gives the dst
\* object itself, kSrc the src object itself, and neither allocates a
\* combinator; every other mode allocates a Blend holding (mode, dst, src).
C1_MakeBlendFolds ==
    call.op = "MakeBlend" =>
        IF call.mode = kClear THEN NewObject(ColorObj(0))
        ELSE IF call.mode = kDst THEN ret = call.dst /\ NothingNew
        ELSE IF call.mode = kSrc THEN ret = call.src /\ NothingNew
        ELSE NewObject(SkShader_Blend(call.mode, call.dst, call.src))

\* MakeBlend(kDst, dst, src) on two different objects gave back dst.
C1_Witness ==
    /\ call.op = "MakeBlend" /\ call.mode = kDst
    /\ call.dst # Null /\ call.src # Null /\ call.dst # call.src
    /\ ret = call.dst

\* C2: MakeLerp applies its rules in this order: NaN weight gives nullptr
\* (even for dst = src); else dst = src gives that object for every weight;
\* else weight <= 0 gives dst; else weight >= 1 gives src; else a new Lerp
\* holding (weight, dst, src).
C2_MakeLerpPrecedence ==
    call.op = "MakeLerp" =>
        IF call.weight.nan THEN ret = Null /\ NothingNew
        ELSE IF call.dst = call.src THEN ret = call.dst /\ NothingNew
        ELSE IF call.weight.q <= 0 THEN ret = call.dst /\ NothingNew
        ELSE IF call.weight.q >= 4 THEN ret = call.src /\ NothingNew
        ELSE NewObject(SkShader_Lerp(call.weight, call.dst, call.src))

\* MakeLerp(NaN, A, A) on a real object A gave nullptr.
C2_Witness ==
    /\ call.op = "MakeLerp" /\ call.weight.nan
    /\ call.dst # Null /\ call.dst = call.src
    /\ ret = Null

\* C3: MakeBlend always returns an object, and MakeLerp returns nullptr only
\* for a NaN weight, also when dst or src is nullptr.
C3_NeverAbsent ==
    /\ call.op = "MakeBlend" => ret # Null
    /\ call.op = "MakeLerp" /\ ret = Null => call.weight.nan

\* C7: every combinator in the heap satisfies its data-model invariant: a
\* Blend's operator is in the valid range and is none of kClear, kSrc, kDst;
\* a Lerp's weight is not NaN and strictly between 0 and 1, and its dst and src
\* are different objects.
C7_CombinatorInvariant ==
    \A p \in 1 .. Len(heap) :
        /\ heap[p].kind = "Blend" =>
              /\ heap[p].mode \notin {kClear, kSrc, kDst}
              /\ heap[p].mode >= 0 /\ heap[p].mode <= kLastMode
        /\ heap[p].kind = "Lerp" =>
              /\ ~heap[p].weight.nan
              /\ heap[p].weight.q > 0 /\ heap[p].weight.q < 4
              /\ heap[p].dst # heap[p].src

\* A Blend record was decoded into a new Blend combinator while the heap also
\* holds a Lerp combinator.
C7_Witness ==
    /\ call.op = "DecodeBlend" /\ ret # Null /\ heap[ret].kind = "Blend"
    /\ ret > call.nobj
    /\ \E p \in 1 .. Len(heap) : heap[p].kind = "Lerp"

\* C10: GPU lowering never ends in a fatal error: a Lerp combinator answers
\* absent, and a Blend combinator answers absent or the two-node blend of
\* (source node, destination node, operator).
C10_GpuNeverFatal ==
    call.op = "asFragmentProcessor" =>
        /\ fp # Fatal
        /\ heap[call.obj].kind = "Lerp" => fp = Absent
        /\ heap[call.obj].kind = "Blend" =>
              \/ fp = Absent
              \/ /\ fp[1] = "xfermode" /\ fp[2] = heap[call.obj].mode
                 /\ heap[call.obj].src # Null /\ heap[call.obj].dst # Null
                 /\ fp[3] \in asFragmentProcessor(heap, heap[call.obj].src)
                 /\ fp[4] \in asFragmentProcessor(heap, heap[call.obj].dst)

\* ---------------------------------------------------------------- the codec

\* Objects a and b are the same shader: the same kind with the same operator,
\* weight, colour or support, and the same destination and source in that
\* order; nullptr is the same as nullptr only.
RECURSIVE SameShader(_, _, _)
SameShader(h, a, b) ==
    IF a = Null \/ b = Null THEN a = b
    ELSE /\ h[a].kind = h[b].kind
         /\ h[a].mode = h[b].mode
         /\ h[a].weight = h[b].weight
         /\ h[a].ok = h[b].ok
         /\ SameShader(h, h[a].dst, h[b].dst)
         /\ SameShader(h, h[a].src, h[b].src)

\* C4: flatten followed by decode of a combinator the factory built yields,
\* with the stream still valid, a newly built combinator of the same kind with
\* the same operator or weight whose destination and source are the decoded
\* destination and source in that order; never a simplified form or nullptr.
C4_RoundTrip ==
    call.op = "RoundTrip" =>
        /\ valid
        /\ ret # Null /\ ret > call.nobj
        /\ heap[ret].kind = heap[call.obj].kind
        /\ SameShader(heap, call.obj, ret)

\* A Lerp whose two children are different real objects, one of them a
\* combinator, was round-tripped.
C4_Witness ==
    /\ call.op = "RoundTrip" /\ ret # Null
    /\ heap[call.obj].kind = "Lerp"
    /\ IsComb(heap, heap[call.obj].dst) /\ heap[call.obj].src # Null
    /\ heap[ret].kind = "Lerp"

\* The trailing field of a hand-made record.
Field == call.data[Len(call.data)]
\* The decode of the record itself (depth 1) made no factory call.
NoOwnCall == \A i \in 1 .. Len(calls) : calls[i].depth > 1
\* The combinators built during the last decode.
Built == {p \in (call.nobj + 1) .. Len(heap) : IsComb(heap, p)}
\* Nested records among the children that were read before the stream went bad.
NestedRead ==
    (IF call.e1 = NestedEnc THEN 1 ELSE 0)
    + (IF call.e1 \notin BadEncs /\ call.e2 = NestedEnc THEN 1 ELSE 0)
ChildReadFailed == call.e1 \in BadEncs \/ call.e2 \in BadEncs

RECURSIVE Fails(_, _)
Fails(h, p) ==
    IF p = Null THEN FALSE
    ELSE IF ~IsComb(h, p) THEN ~h[p].ok
    ELSE Fails(h, h[p].dst) \/ Fails(h, h[p].src)

Shape(op, obj, mode) == [op |-> op, obj |-> obj, mode |-> mode]
MergeShape(h, p) ==
    IF h[p].kind = "Blend" THEN Shape("blend", p, h[p].mode) ELSE Shape("lerp_1_float", p, 0)

\* The stages a call of appendStages on p is to append, in order, up to the
\* first failing leaf: destination, store, source, load, merge.
RECURSIVE Expected(_, _)
Expected(h, p) ==
    IF p = Null THEN <<Shape("constant_color", Null, 0)>>
    ELSE IF ~IsComb(h, p) THEN (IF h[p].ok THEN <<Shape("shader", p, 0)>> ELSE <<>>)
    ELSE IF Fails(h, h[p].dst) THEN Expected(h, h[p].dst)
    ELSE IF Fails(h, h[p].src)
         THEN Expected(h, h[p].dst) \o <<Shape("store_src", Null, 0)>> \o Expected(h, h[p].src)
    ELSE Expected(h, h[p].dst) \o <<Shape("store_src", Null, 0)>> \o Expected(h, h[p].src)
         \o <<Shape("load_dst", Null, 0), MergeShape(h, p)>>

ShapeOf(stages) == [i \in 1 .. Len(stages) |-> Shape(stages[i].op, stages[i].obj, stages[i].mode)]

\* The stages of build b that the logged call e appended.
Slice(b, e) == SubSeq(pipeline[b], e.start + 1, e.end)

\* Build b has a stage with one of the ops on region ptr.
HasStage(b, ops, ptr) ==
    \E i \in 1 .. Len(pipeline[b]) : pipeline[b][i].op \in ops /\ pipeline[b][i].ptr = ptr

MergeOps == {"blend", "lerp_1_float"}

\* C6: a combinator's appendStages fails exactly when a child's fails; it then
\* appends neither its load stage nor its merge stage, and when the destination
\* child failed neither its store stage nor any stage of the source child; the
\* stages appended before the failure stay in the pipeline.
C6_ChildFailure ==
    \A b \in Builds :
        /\ \A i \in 1 .. Len(log[b]) :
              LET e == log[b][i]
                  dst == heap[e.obj].dst
                  src == heap[e.obj].src
              IN  /\ e.ok = (~Fails(heap, dst) /\ ~Fails(heap, src))
                  /\ ~e.ok => ~HasStage(b, {"load_dst"} \cup MergeOps, e.ptr)
                  /\ ~e.ok /\ Fails(heap, dst) =>
                        /\ ~HasStage(b, {"store_src"}, e.ptr)
                        /\ ShapeOf(Slice(b, e)) = Expected(heap, dst)
                  /\ ~e.ok /\ ~Fails(heap, dst) =>
                        /\ HasStage(b, {"store_src"}, e.ptr)
                        /\ ShapeOf(Slice(b, e)) =
                              Expected(heap, dst) \o <<Shape("store_src", Null, 0)>>
                              \o Expected(heap, src)
        /\ ctl[b].op = "done" =>
              /\ ctl[b].val = ~Fails(heap, ctl[b].root)
              /\ ShapeOf(pipeline[b]) = Expected(heap, ctl[b].root)

\* A build failed in the destination of its root's source child, after the
\* root's destination child and store stage were appended.
C6_Witness ==
    \E b \in Builds :
        /\ ctl[b].op = "done" /\ ~ctl[b].val
        /\ IsComb(heap, heap[ctl[b].root].src)
        /\ ~Fails(heap, heap[ctl[b].root].dst)
        /\ Len(pipeline[b]) > 0

\* ------------------------------------------------------ running a pipeline

\* A pixel value: <<tag, n, a, b>>.
Uninit == <<"uninit", 0, <<>>, <<>>>>
Paint == <<"paint", 0, <<>>, <<>>>>
ShaderOut(p) == <<"shader", p, <<>>, <<>>>>
BlendOut(mode, d, s) == <<"blend", mode, d, s>>
LerpOut(q, d, s) == <<"lerp", q, d, s>>

\* What shader p computes: nullptr stands for the paint colour.
RECURSIVE Eval(_, _)
Eval(h, p) ==
    IF p = Null THEN Paint
    ELSE IF h[p].kind = "Blend" THEN BlendOut(h[p].mode, Eval(h, h[p].dst), Eval(h, h[p].src))
    ELSE IF h[p].kind = "Lerp" THEN LerpOut(h[p].weight.q, Eval(h, h[p].dst), Eval(h, h[p].src))
    ELSE ShaderOut(p)

Ptrs(stages) == {stages[i].ptr : i \in 1 .. Len(stages)}

\* The registers (cur: r,g,b,a; dreg: dr,dg,db,da) and the scratch memory
\* after stage g ran in state st.
Exec(st, g) ==
    IF g.op = "constant_color" THEN [st EXCEPT !.cur = Paint]
    ELSE IF g.op = "shader" THEN [st EXCEPT !.cur = ShaderOut(g.obj)]
    ELSE IF g.op = "store_src" THEN [st EXCEPT !.mem = [@ EXCEPT ![g.ptr] = st.cur]]
    ELSE IF g.op = "load_dst" THEN [st EXCEPT !.dreg = st.mem[g.ptr]]
    ELSE IF g.op = "load" THEN [st EXCEPT !.cur = st.mem[g.ptr]]
    ELSE IF g.op = "blend" THEN [st EXCEPT !.cur = BlendOut(g.mode, st.dreg, st.cur)]
    ELSE [st EXCEPT !.cur = LerpOut(heap[g.obj].weight.q, st.dreg, st.cur)]

\* The state after the first i stages ran in append order.
RECURSIVE RunTo(_, _)
RunTo(stages, i) ==
    IF i = 0 THEN [cur |-> Uninit, dreg |-> Uninit, mem |-> [p \in Ptrs(stages) |-> Uninit]]
    ELSE Exec(RunTo(stages, i - 1), stages[i])

\* C8: a successful appendStages appends the destination child's stages, a
\* store to its scratch region, the source child's stages, a load of the region
\* into the dst registers, then the merge stage; so when the stages run in
\* append order every merge stage, at any nesting depth, finds the destination
\* child's output in the dst registers and the source child's in the current
\* ones, and the pipeline ends with the root's value.
C8_StageOrder ==
    \A b \in Builds :
        /\ \A i \in 1 .. Len(log[b]) :
              LET e == log[b][i]
                  n == Len(Expected(heap, heap[e.obj].dst))
              IN  e.ok =>
                    /\ ShapeOf(Slice(b, e)) = Expected(heap, e.obj)
                    /\ pipeline[b][e.start + n + 1] = StoreStage(e.ptr)
                    /\ pipeline[b][e.end - 1].op = "load_dst"
                    /\ pipeline[b][e.end - 1].ptr = e.ptr
        /\ \A i \in 1 .. Len(pipeline[b]) :
              pipeline[b][i].op \in MergeOps =>
                  LET st == RunTo(pipeline[b], i - 1)
                  IN  /\ st.dreg = Eval(heap, heap[pipeline[b][i].obj].dst)
                      /\ st.cur = Eval(heap, heap[pipeline[b][i].obj].src)
        /\ ctl[b].op = "done" /\ ctl[b].val =>
              RunTo(pipeline[b], Len(pipeline[b])).cur = Eval(heap, ctl[b].root)

\* A build of a combinator nested three deep, with a child appended twice,
\* succeeded.
C8_Witness ==
    \E b \in Builds :
        /\ ctl[b].op = "done" /\ ctl[b].val
        /\ IsComb(heap, heap[ctl[b].root].dst)
        /\ IsComb(heap, heap[heap[ctl[b].root].dst].dst)
        /\ heap[heap[ctl[b].root].dst].dst = heap[heap[ctl[b].root].dst].src

\* The calls of append_two_shaders made in build b: in progress and returned.
Invocations(b) ==
    {[ptr |-> stack[b][i].ptr, start |-> stack[b][i].start, end |-> Len(pipeline[b])]
        : i \in 1 .. Len(stack[b])}
    \cup {[ptr |-> log[b][i].ptr, start |-> log[b][i].start, end |-> log[b][i].end]
        : i \in 1 .. Len(log[b])}

\* C9: every call of the two-shader helper reserves a fresh region of its own
\* build's arena: no two calls, in one build or in different builds, have the
\* same region, the only stage that writes a region is the one store stage of
\* the call that reserved it, and no build changes a field of any object.
C9_FreshScratch ==
    /\ heap = BaseHeap
    /\ \A b \in Builds :
          /\ Cardinality(Invocations(b)) = arena[b]
          /\ Cardinality({v.ptr : v \in Invocations(b)}) = arena[b]
          /\ \A v \in Invocations(b) : v.ptr[1] = b
          /\ \A i \in 1 .. Len(pipeline[b]) :
                LET g == pipeline[b][i]
                IN  g.op = "store_src" =>
                        /\ \E v \in Invocations(b) :
                              g.ptr = v.ptr /\ i > v.start /\ i <= v.end
                        /\ \A j \in 1 .. Len(pipeline[b]) :
                              pipeline[b][j].op = "store_src" /\ pipeline[b][j].ptr = g.ptr
                                  => j = i

\* Two builds have each appended the stages of the same combinator, one whose
\* child is appended twice, and both are done.
C9_Witness ==
    /\ ctl[1].op = "done" /\ ctl[2].op = "done"
    /\ ctl[1].root = ctl[2].root /\ ctl[1].val
    /\ heap[ctl[1].root].dst = heap[ctl[1].root].src
    /\ arena[1] >= 3

====
